---- MODULE Spec2Model ----
(***************************************************************************)
(* A model of tinyhouse's diploid hidden Markov model (src/DiploidHMM.py): *)
(* the emission model, the transmission operator, the forward and the      *)
(* backward pass and their combination, and the entry point diploidHMM.    *)
(* The pedigree of src/Pedigree.py is modelled at the end of the module.   *)
(*                                                                         *)
(* Numbers.  The code computes in float32.  The model computes in exact    *)
(* rationals <<numerator, denominator>> kept in lowest terms, so rounding  *)
(* is left out; the one float value kept is NaN, which the code produces   *)
(* when it divides a slice whose sum is zero by that sum (0/0).            *)
(* Arrays are functions over 0-based index ranges, as in the code.         *)
(***************************************************************************)
EXTENDS Integers, Sequences, FiniteSets, TLC

VARIABLES
    pc,                  \* position of the run
    entry,               \* which function the run is a call of
    callingMethod,       \* diploidHMM's callingMethod argument
    useCalledHaps,       \* diploidHMM's useCalledHaps argument
    indGeno,             \* ind.genotypes
    indPatHap,           \* ind.haplotypes[0]
    indMatHap,           \* ind.haplotypes[1]
    indProbs,            \* ProbMath.getGenotypeProbabilities_ind(ind), 4 x nLoci
    paternalHaplotypes,  \* paternal library, nPat x nLoci
    maternalHaplotypes,  \* maternal library, nMat x nLoci
    error,               \* per-locus error rate
    recombination_rate,  \* per-locus recombination rate
    point_estimate,      \* the emission tensor (overwritten by the in-place forward pass)
    in_place,            \* diploid_forward's in_place argument
    combined,            \* diploid_forward's tensor (point_estimate itself when in_place)
    est,                 \* diploid_backward's tensor `backward', which
                         \* diploidForwardBackward names est
    i,                   \* loop index of the pass that is running
    previous_estimate,   \* transmit's input grid (a call of transmit on its own)
    output,              \* transmit's output grid (a call of transmit on its own)
    ind_dosages,         \* ind.dosages
    ind_info,            \* ind.info
    emission,            \* point_estimate as a pass was given it, before the
                         \* in-place forward pass overwrites it
    forward_probs,       \* diploidOneSample's forward_probs argument
    pvals,               \* diploidOneSample's sampling weights of one locus
    paternal_indices,    \* diploidOneSample's sampled paternal indices
    maternal_indices,    \* diploidOneSample's sampled maternal indices
    pedigree,            \* a Pedigree object (src/Pedigree.py) and the
                         \* Individual objects it has constructed
    yielded,             \* what the last iteration over the pedigree yielded
    pedList              \* the argument of the last call of readInPedigreeFromList

vars == <<pc, entry, callingMethod, useCalledHaps, indGeno, indPatHap, indMatHap,
          indProbs, paternalHaplotypes, maternalHaplotypes, error,
          recombination_rate, point_estimate, in_place, combined, est, i,
          previous_estimate,
          output, ind_dosages, ind_info, emission, forward_probs, pvals,
          paternal_indices, maternal_indices, pedigree, yielded, pedList>>

\* The arguments of the calls.
arguments == <<entry, callingMethod, useCalledHaps, indGeno, indPatHap, indMatHap, indProbs,
               paternalHaplotypes, maternalHaplotypes, error, recombination_rate,
               previous_estimate, output>>

\* The state of diploidOneSample.
sampler == <<forward_probs, pvals, paternal_indices, maternal_indices>>

\* What the emission functions, the passes and the decoders do not write.
inputs == <<arguments, emission, sampler, pedigree, yielded, pedList>>

(***************************************************************************)
(* Bounds of the model.                                                    *)
(***************************************************************************)
MaxLoci == 2
MaxHap == 2
MaxCells == 4
MaxLibraryCells == 4
RateDen == 3
MaxWeight == 2
ProbDen == 2

\* The code's missing-value code of genotypes and alleles.
Missing == 9

\* A variable that a run does not use holds None.
None == "none"

(***************************************************************************)
(* float arithmetic, exact.                                                *)
(***************************************************************************)
RECURSIVE Gcd(_, _)
Gcd(a, b) == IF b = 0 THEN a ELSE Gcd(b, a % b)

Abs(a) == IF a < 0 THEN -a ELSE a

NaN == <<0, 0>>

IsNaN(x) == x[2] = 0

\* n/d in lowest terms, d > 0.
Q(n, d) ==
    LET g == Gcd(Abs(n), Abs(d))
        s == IF d < 0 THEN -1 ELSE 1
    IN  <<s * (n \div g), s * (d \div g)>>

Zero == <<0, 1>>
One == <<1, 1>>

Add(x, y) ==
    IF IsNaN(x) \/ IsNaN(y) THEN NaN
    ELSE LET g == Gcd(x[2], y[2])
         IN  Q(x[1] * (y[2] \div g) + y[1] * (x[2] \div g), x[2] * (y[2] \div g))

Neg(x) == IF IsNaN(x) THEN NaN ELSE <<-x[1], x[2]>>

Sub(x, y) == Add(x, Neg(y))

Mul(x, y) ==
    IF IsNaN(x) \/ IsNaN(y) THEN NaN
    ELSE LET g1 == Gcd(Abs(x[1]), y[2])
             g2 == Gcd(Abs(y[1]), x[2])
         IN  Q((x[1] \div g1) * (y[1] \div g2), (x[2] \div g2) * (y[2] \div g1))

\* x / y.  0/0 is NaN, and so is anything divided by or into NaN.  A non-zero
\* value over zero (inf) cannot arise from the non-negative weights of the
\* model and is left undefined.
Div(x, y) ==
    CASE IsNaN(x) \/ IsNaN(y) -> NaN
      [] y[1] = 0 /\ x[1] = 0 -> NaN
      [] y[1] # 0 -> Mul(x, <<y[2], y[1]>>)

FromInt(n) == <<n, 1>>

\* The sum of f[a] over a \in 0..n-1, accumulated in index order.
RECURSIVE SumTo(_, _)
SumTo(f, n) == IF n = 0 THEN Zero ELSE Add(SumTo(f, n - 1), f[n - 1])

(***************************************************************************)
(* Arrays.                                                                 *)
(***************************************************************************)
Len0(a) == Cardinality(DOMAIN a)

Idx(n) == 0 .. (n - 1)

\* np.sum of a 2-d grid.
Sum2(grid) == SumTo([j \in DOMAIN grid |-> SumTo(grid[j], Len0(grid[j]))], Len0(grid))

\* np.sum of a 3-d tensor.
Sum3(tensor) == SumTo([a \in DOMAIN tensor |-> Sum2(tensor[a])], Len0(tensor))

\* grid /= s
DivGrid(grid, s) == [j \in DOMAIN grid |-> [k \in DOMAIN grid[j] |-> Div(grid[j][k], s)]]

\* a * b, elementwise
MulGrid(a, b) == [j \in DOMAIN a |-> [k \in DOMAIN a[j] |-> Mul(a[j][k], b[j][k])]]

GridHasNaN(grid) == \E j \in DOMAIN grid : \E k \in DOMAIN grid[j] : IsNaN(grid[j][k])

TensorHasNaN(tensor) == \E a \in DOMAIN tensor : GridHasNaN(tensor[a])

(***************************************************************************)
(* transmit (src/DiploidHMM.py:269-308).                                   *)
(***************************************************************************)
\* pat[j] += previous_estimate[j, k] over k (lines 288-293)
transmit_pat(previous_estimate_, j) == SumTo(previous_estimate_[j], Len0(previous_estimate_[j]))

\* mat[k] += previous_estimate[j, k] over j (lines 288-293)
transmit_mat(previous_estimate_, k) ==
    SumTo([j \in DOMAIN previous_estimate_ |-> previous_estimate_[j][k]], Len0(previous_estimate_))

\* The scaling of the two marginals (lines 300-301): pat *= e1e/n_pat and
\* mat *= e1e/n_mat.
transmit_pat_scale(e1e, n_pat, n_mat) == Div(e1e, FromInt(n_pat))

transmit_mat_scale(e1e, n_pat, n_mat) == Div(e1e, FromInt(n_mat))

transmit(previous_estimate_, e) ==
    LET n_pat == Len0(previous_estimate_)
        n_mat == Len0(previous_estimate_[0])
        e1e == Mul(Sub(One, e), e)
        e2m1 == Mul(Sub(One, e), Sub(One, e))
        pat == [j \in Idx(n_pat) |->
                  Mul(transmit_pat(previous_estimate_, j), transmit_pat_scale(e1e, n_pat, n_mat))]
        mat == [k \in Idx(n_mat) |->
                  Mul(transmit_mat(previous_estimate_, k), transmit_mat_scale(e1e, n_pat, n_mat))]
        e2 == Div(Mul(e, e), FromInt(n_mat * n_pat))
    IN  [j \in Idx(n_pat) |-> [k \in Idx(n_mat) |->
            Add(Add(Add(Mul(previous_estimate_[j][k], e2m1), pat[j]), mat[k]), e2)]]

(***************************************************************************)
(* Input sets.                                                             *)
(***************************************************************************)
\* Error and recombination rates: k/RateDen in [0,1).
Rates == {Q(k, RateDen) : k \in 0 .. (RateDen - 1)}

\* All n_pat x n_mat grids with cells in S.
Grids(n_pat, n_mat, S) == [Idx(n_pat) -> [Idx(n_mat) -> S]]

\* Weights of a hypothesis pair: k/MaxWeight in [0,1].
Weights == {Q(w, MaxWeight) : w \in 0 .. MaxWeight}

(***************************************************************************)
(* Array reads.  The functions are compiled by numba without bounds        *)
(* checking: a read at an index past an axis reads the array's buffer at   *)
(* the flat offset the strides give, and past the buffer it reads whatever *)
(* lies there.  `garbage' is the value such a read returns.                *)
(***************************************************************************)
\* array[idx] of a 1-d array.
At1(array, idx, garbage) == IF idx \in DOMAIN array THEN array[idx] ELSE garbage

\* array[r, c] of a C-contiguous 2-d array.
At2(array, r, c, garbage) ==
    LET rows == Len0(array)
        cols == Len0(array[0])
        flat == r * cols + c
    IN  IF flat < rows * cols THEN array[flat \div cols][flat % cols] ELSE garbage

\* array[a, b, c] of a C-contiguous 3-d array.
At3(array, a, b, c, garbage) ==
    LET d0 == Len0(array)
        d1 == Len0(array[0])
        d2 == Len0(array[0][0])
        flat == (a * d1 + b) * d2 + c
    IN  IF flat < d0 * d1 * d2
        THEN array[flat \div (d1 * d2)][(flat \div d2) % d1][flat % d2]
        ELSE garbage

(***************************************************************************)
(* The emission model (src/DiploidHMM.py:100-177).                         *)
(***************************************************************************)
\* nLoci as the code takes it: both shape lines assign nLoci, the second
\* (the maternal library's) wins (lines 102-103, 151-152).
emission_nLoci(paternalHaplotypes_, maternalHaplotypes_) == Len0(maternalHaplotypes_[0])

\* The guard of line 107: the locus is skipped, its weights left at 1, when
\* the genotype is missing.
genotype_observed(geno) == geno # Missing

\* The weight of lines 112-121 with the maternal factor compared with the
\* paternal hypothesis allele.
phased_weight_pat_twice(patObs, matObs, patAllele, matAllele, e) ==
    Mul(IF patObs = patAllele THEN Sub(One, e) ELSE e,
        IF matObs = patAllele THEN Sub(One, e) ELSE e)

\* The weight of a locus whose two parental alleles are observed
\* (lines 112-121).
phased_weight(patObs, matObs, patAllele, matAllele, e) ==
    Mul(IF patObs = patAllele THEN Sub(One, e) ELSE e,
        IF matObs = matAllele THEN Sub(One, e) ELSE e)

\* The weight of lines 124-128 with 1-e in place of 1-e*e.
unphased_weight_one_error(geno, patAllele, matAllele, e) ==
    IF patAllele + matAllele = geno THEN Sub(One, e) ELSE Mul(e, e)

\* The weight of a locus with a genotype but without both parental alleles
\* (lines 124-128).
unphased_weight(geno, patAllele, matAllele, e) ==
    IF patAllele + matAllele = geno THEN Sub(One, Mul(e, e)) ELSE Mul(e, e)

\* pointEst[i,j,k] of getDiploidPointEstimates (lines 105-128).
point_estimate_cell(indGeno_, indPatHap_, indMatHap_, paternalHaplotypes_, maternalHaplotypes_, error_, i_, j, k, g) ==
    IF genotype_observed(At1(indGeno_, i_, g.int))
    THEN IF At1(indPatHap_, i_, g.int) # Missing /\ At1(indMatHap_, i_, g.int) # Missing
         THEN phased_weight(At1(indPatHap_, i_, g.int), At1(indMatHap_, i_, g.int),
                            At2(paternalHaplotypes_, j, i_, g.allele),
                            At2(maternalHaplotypes_, k, i_, g.allele),
                            At1(error_, i_, g.float))
         ELSE unphased_weight(At1(indGeno_, i_, g.int),
                              At2(paternalHaplotypes_, j, i_, g.allele),
                              At2(maternalHaplotypes_, k, i_, g.allele),
                              At1(error_, i_, g.float))
    ELSE One

\* getDiploidPointEstimates (lines 100-129): an nLoci x nPat x nMat tensor.
getDiploidPointEstimates(indGeno_, indPatHap_, indMatHap_, paternalHaplotypes_, maternalHaplotypes_, error_, g) ==
    [i_ \in Idx(emission_nLoci(paternalHaplotypes_, maternalHaplotypes_)) |->
        [j \in Idx(Len0(paternalHaplotypes_)) |->
            [k \in Idx(Len0(maternalHaplotypes_)) |->
                point_estimate_cell(indGeno_, indPatHap_, indMatHap_, paternalHaplotypes_,
                                    maternalHaplotypes_, error_, i_, j, k, g)]]]

\* The four branches of lines 164-174 with the two heterozygous rows taken
\* the other way round.
probs_weight_het_swapped(p_aa, p_aA, p_Aa, p_AA, patAllele, matAllele, e) ==
    LET no == Mul(Sub(One, e), Sub(One, e))
        single == Mul(e, Sub(One, e))
        double == Mul(e, e)
        value(both, one, none) == Add(Add(Mul(both, no), Mul(one, single)), Mul(none, double))
    IN  CASE patAllele = 0 /\ matAllele = 0 -> value(p_aa, Add(p_aA, p_Aa), p_AA)
          [] patAllele = 1 /\ matAllele = 0 -> value(p_aA, Add(p_aa, p_AA), p_Aa)
          [] patAllele = 0 /\ matAllele = 1 -> value(p_Aa, Add(p_aa, p_AA), p_aA)
          [] patAllele = 1 /\ matAllele = 1 -> value(p_AA, Add(p_aA, p_Aa), p_aa)

\* The four branches of lines 164-174, for hypothesis alleles in {0,1}.
probs_weight(p_aa, p_aA, p_Aa, p_AA, patAllele, matAllele, e) ==
    LET no == Mul(Sub(One, e), Sub(One, e))
        single == Mul(e, Sub(One, e))
        double == Mul(e, e)
        value(both, one, none) == Add(Add(Mul(both, no), Mul(one, single)), Mul(none, double))
    IN  CASE patAllele = 0 /\ matAllele = 0 -> value(p_aa, Add(p_aA, p_Aa), p_AA)
          [] patAllele = 1 /\ matAllele = 0 -> value(p_Aa, Add(p_aa, p_AA), p_aA)
          [] patAllele = 0 /\ matAllele = 1 -> value(p_aA, Add(p_aa, p_AA), p_Aa)
          [] patAllele = 1 /\ matAllele = 1 -> value(p_AA, Add(p_aA, p_Aa), p_aa)

\* pointEst[j,k,i] of getDiploidPointEstimates_probs (lines 159-176).
probs_cell(indProbs_, paternalHaplotypes_, maternalHaplotypes_, error_, i_, j, k, g) ==
    probs_weight(At2(indProbs_, 0, i_, g.float), At2(indProbs_, 1, i_, g.float),
                 At2(indProbs_, 2, i_, g.float), At2(indProbs_, 3, i_, g.float),
                 At2(paternalHaplotypes_, j, i_, g.allele),
                 At2(maternalHaplotypes_, k, i_, g.allele),
                 At1(error_, i_, g.float))

\* getDiploidPointEstimates_probs (lines 149-177): an nPat x nMat x nLoci
\* tensor (line 154).
getDiploidPointEstimates_probs(indProbs_, paternalHaplotypes_, maternalHaplotypes_, error_, g) ==
    [j \in Idx(Len0(paternalHaplotypes_)) |->
        [k \in Idx(Len0(maternalHaplotypes_)) |->
            [i_ \in Idx(emission_nLoci(paternalHaplotypes_, maternalHaplotypes_)) |->
                probs_cell(indProbs_, paternalHaplotypes_, maternalHaplotypes_, error_,
                           i_, j, k, g)]]]

(***************************************************************************)
(* A call of transmit on its own.                                          *)
(***************************************************************************)
\* No Pedigree object.
NoPedigree == pedigree = None /\ yielded = None /\ pedList = None

\* No call of diploidOneSample.
NoSampler ==
    /\ forward_probs = None /\ pvals = None
    /\ paternal_indices = None /\ maternal_indices = None

Unused ==
    /\ emission = None /\ NoSampler /\ NoPedigree
    /\ callingMethod = None /\ useCalledHaps = None
    /\ indGeno = None /\ indPatHap = None /\ indMatHap = None /\ indProbs = None
    /\ paternalHaplotypes = None /\ maternalHaplotypes = None /\ error = None
    /\ point_estimate = None /\ in_place = None /\ combined = None /\ est = None
    /\ i = None /\ ind_dosages = None /\ ind_info = None

InitTransmit ==
    /\ pc = "transmit"
    /\ entry = "transmit"
    /\ \E n_pat \in 1 .. MaxHap, n_mat \in 1 .. MaxHap :
          previous_estimate \in Grids(n_pat, n_mat, Weights)
    /\ recombination_rate \in Rates
    /\ output = None
    /\ Unused

Transmit ==
    /\ pc = "transmit"
    /\ output' = transmit(previous_estimate, recombination_rate)
    /\ pc' = "done"
    /\ UNCHANGED <<entry, callingMethod, useCalledHaps, indGeno, indPatHap, indMatHap,
                   indProbs, paternalHaplotypes, maternalHaplotypes, error,
                   recombination_rate, point_estimate, in_place, combined, est, i,
                   previous_estimate, ind_dosages, ind_info, emission, sampler,
                   pedigree, yielded, pedList>>

NextTransmit == Transmit

SpecTransmit == InitTransmit /\ [][NextTransmit]_vars

\* C2: transmit writes output[j,k] = (1-e)^2 * input[j,k]
\*     + maternalMarginal[k] * (1-e)e/nPat + paternalMarginal[j] * (1-e)e/nMat
\*     + e^2/(nPat*nMat), for every pair of library sizes, nPat # nMat included.
C2_TransmitFormula ==
    pc = "done" /\ entry = "transmit" =>
        LET n_pat == Len0(previous_estimate)
            n_mat == Len0(previous_estimate[0])
            e == recombination_rate
            e1e == Mul(Sub(One, e), e)
            paternalMarginal == [j \in Idx(n_pat) |-> SumTo(previous_estimate[j], n_mat)]
            maternalMarginal ==
                [k \in Idx(n_mat) |->
                    SumTo([j \in Idx(n_pat) |-> previous_estimate[j][k]], n_pat)]
        IN  \A j \in Idx(n_pat), k \in Idx(n_mat) :
                output[j][k] =
                    Add(Add(Add(Mul(Mul(Sub(One, e), Sub(One, e)), previous_estimate[j][k]),
                                Mul(maternalMarginal[k], Div(e1e, FromInt(n_pat)))),
                            Mul(paternalMarginal[j], Div(e1e, FromInt(n_mat)))),
                        Div(Mul(e, e), FromInt(n_pat * n_mat)))

(***************************************************************************)
(* A call of getDiploidPointEstimates or getDiploidPointEstimates_probs on *)
(* its own.                                                                *)
(***************************************************************************)
Alleles == {0, 1}

Genotypes == {0, 1, 2, Missing}

HapObservations == {0, 1, Missing}

\* All n x n_loci haplotype libraries.
Libraries(n, n_loci) == [Idx(n) -> [Idx(n_loci) -> Alleles]]

\* Genotype probabilities k/ProbDen.
ProbValues == {Q(k, ProbDen) : k \in 0 .. ProbDen}

\* All 4 x n_loci genotype-probability matrices whose columns sum to 1.
ProbMatrices(n_loci) ==
    {p \in [Idx(4) -> [Idx(n_loci) -> ProbValues]] :
        \A c \in Idx(n_loci) : SumTo([r \in Idx(4) |-> p[r][c]], 4) = One}

\* The shapes <<nLoci, nPat, nMat>> of the calls whose arguments agree on
\* nLoci: the two libraries hold at most MaxLibraryCells alleles.
EmissionShapes ==
    {s \in (1 .. MaxLoci) \X (1 .. MaxHap) \X (1 .. MaxHap) :
        s[1] * (s[2] + s[3]) <= MaxLibraryCells}

\* The locus counts <<individual, paternal library, maternal library>> of
\* the calls whose arguments need not agree on nLoci.
LociCounts == (1 .. MaxLoci) \X (1 .. MaxLoci) \X (1 .. MaxLoci)

\* The number of loci of the individual's data.
ind_nLoci == IF entry = "getDiploidPointEstimates_probs" THEN Len0(indProbs[0]) ELSE Len0(indGeno)

LociMismatch ==
    ~(/\ ind_nLoci = Len0(paternalHaplotypes[0])
      /\ ind_nLoci = Len0(maternalHaplotypes[0]))

\* The loop over the maternal library's loci reads past the end of another
\* argument's buffer.
OverRead ==
    LET nLoci == emission_nLoci(paternalHaplotypes, maternalHaplotypes)
    IN  nLoci > ind_nLoci \/ nLoci > Len0(paternalHaplotypes[0]) \/ nLoci > Len0(error)

\* What the reads past a buffer may return.
Garbage ==
    IF OverRead
    THEN [int : HapObservations, allele : Alleles, float : Rates]
    ELSE {[int |-> Missing, allele |-> 0, float |-> Zero]}

NotInEmission ==
    /\ emission = None /\ NoSampler /\ NoPedigree
    /\ callingMethod = None /\ useCalledHaps = None
    /\ recombination_rate = None /\ in_place = None /\ combined = None /\ est = None
    /\ i = None /\ previous_estimate = None /\ output = None
    /\ ind_dosages = None /\ ind_info = None

\* The individual's data of n_loci loci, as the function called takes it.
IndividualData(n_loci, haps) ==
    \/ /\ entry = "getDiploidPointEstimates"
       /\ indGeno \in [Idx(n_loci) -> Genotypes]
       /\ indPatHap \in [Idx(n_loci) -> haps]
       /\ indMatHap \in [Idx(n_loci) -> haps]
       /\ indProbs = None
    \/ /\ entry = "getDiploidPointEstimates_probs"
       /\ indProbs \in ProbMatrices(n_loci)
       /\ indGeno = None /\ indPatHap = None /\ indMatHap = None

\* Arguments that agree on nLoci.
MatchedArguments ==
    \E s \in EmissionShapes :
        /\ IndividualData(s[1], HapObservations)
        /\ error \in [Idx(s[1]) -> Rates]
        /\ paternalHaplotypes \in Libraries(s[2], s[1])
        /\ maternalHaplotypes \in Libraries(s[3], s[1])

\* Arguments whose locus counts are chosen one by one: single-haplotype
\* libraries, an unphased individual, one error rate at all loci.
AnyLociArguments ==
    \E s \in LociCounts :
        /\ IndividualData(s[1], {Missing})
        /\ \E e \in Rates : error = [c \in Idx(s[1]) |-> e]
        /\ paternalHaplotypes \in Libraries(1, s[2])
        /\ maternalHaplotypes \in Libraries(1, s[3])

InitEmission ==
    /\ pc = "emission"
    /\ entry = "getDiploidPointEstimates"
    /\ MatchedArguments
    /\ point_estimate = None
    /\ NotInEmission

InitProbs ==
    /\ pc = "emission"
    /\ entry = "getDiploidPointEstimates_probs"
    /\ MatchedArguments
    /\ point_estimate = None
    /\ NotInEmission

InitMismatch ==
    /\ pc = "emission"
    /\ entry \in {"getDiploidPointEstimates", "getDiploidPointEstimates_probs"}
    /\ AnyLociArguments
    /\ point_estimate = None
    /\ NotInEmission

\* getDiploidPointEstimates runs to its return.
PointEstimates ==
    /\ pc = "emission"
    /\ entry = "getDiploidPointEstimates"
    /\ \E g \in Garbage :
          point_estimate' = getDiploidPointEstimates(indGeno, indPatHap, indMatHap, paternalHaplotypes, maternalHaplotypes, error, g)
    /\ pc' = "done"
    /\ UNCHANGED <<inputs, in_place, combined, est, i, ind_dosages, ind_info>>

\* getDiploidPointEstimates_probs runs to its return.
PointEstimatesProbs ==
    /\ pc = "emission"
    /\ entry = "getDiploidPointEstimates_probs"
    /\ \E g \in Garbage :
          point_estimate' = getDiploidPointEstimates_probs(indProbs, paternalHaplotypes, maternalHaplotypes, error, g)
    /\ pc' = "done"
    /\ UNCHANGED <<inputs, in_place, combined, est, i, ind_dosages, ind_info>>

\* A read past a buffer may also end the process (a segmentation fault).
OverReadCrash ==
    /\ pc = "emission"
    /\ OverRead
    /\ pc' = "crashed"
    /\ UNCHANGED <<inputs, point_estimate, in_place, combined, est, i, ind_dosages, ind_info>>

NextEmission == PointEstimates

SpecEmission == InitEmission /\ [][NextEmission]_vars

NextProbs == PointEstimatesProbs

SpecProbs == InitProbs /\ [][NextProbs]_vars

NextMismatch ==
    \/ PointEstimates
    \/ PointEstimatesProbs
    \/ OverReadCrash

SpecMismatch == InitMismatch /\ [][NextMismatch]_vars

(***************************************************************************)
(* diploid_backward, diploid_forward and diploidForwardBackward            *)
(* (src/DiploidHMM.py:311-386), one action per loop iteration.             *)
(***************************************************************************)
\* All n_loci x n_pat x n_mat tensors with cells in S.
Tensors(n_loci, n_pat, n_mat, S) == [Idx(n_loci) -> Grids(n_pat, n_mat, S)]

\* The tensor shapes of the model.
Shapes ==
    {s \in (1 .. MaxLoci) \X (1 .. MaxHap) \X (1 .. MaxHap) : s[1] * s[2] * s[3] <= MaxCells}

n_loci_of(tensor) == Len0(tensor)

\* The normalisation left out.
normalize_skipped(grid) == grid

\* combined_i /= np.sum(combined_i), and the like: a grid over its own sum.
normalize(grid) == DivGrid(grid, Sum2(grid))

\* np.ones_like(point_estimate) (line 349)
ones_like(tensor) == [a \in DOMAIN tensor |-> [j \in DOMAIN tensor[a] |->
                        [k \in DOMAIN tensor[a][j] |-> One]]]

\* A plausible slip: the backward pass folding in the emission of its own locus.
backward_emission_own_locus(i_) == i_

\* The locus whose emission an iteration i of the backward loop folds in
\* (line 361).
backward_emission_locus(i_) == i_ + 1

\* The entry of recombination_rate an iteration i of the backward loop uses
\* (line 365).
backward_rate_index(i_) == i_

\* One iteration of diploid_backward's loop (lines 361-365): the new backward[i].
backward_step(backward_, point_estimate_, recombination_rate_, i_, g) ==
    LET combined_i == normalize(MulGrid(backward_[i_ + 1],
                                        point_estimate_[backward_emission_locus(i_)]))
    IN  transmit(combined_i, At1(recombination_rate_, backward_rate_index(i_), g))

\* What line 329 divides combined[0] by: np.sum(combined[:,:]), the sum of
\* the whole tensor.
forward_first_divisor(combined_) == Sum3(combined_)

\* The entry of recombination_rate an iteration i of the forward loop uses
\* (line 334).
forward_rate_index(i_) == i_

\* The loop body of lines 334-339 without the emission of locus i.
forward_step_no_emission(combined_, point_estimate_, recombination_rate_, i_, g) ==
    normalize(transmit(combined_[i_ - 1], At1(recombination_rate_, forward_rate_index(i_), g)))

\* The loop body of lines 334-339 reading the slice of locus i-1 of
\* point_estimate, which an in-place run has overwritten.
forward_step_previous_slice(combined_, point_estimate_, recombination_rate_, i_, g) ==
    LET forward_i == transmit(combined_[i_ - 1], At1(recombination_rate_, forward_rate_index(i_), g))
    IN  normalize(MulGrid(point_estimate_[i_ - 1], forward_i))

\* One iteration of diploid_forward's loop (lines 334-339): the new combined[i].
forward_step(combined_, point_estimate_, recombination_rate_, i_, g) ==
    LET forward_i == transmit(combined_[i_ - 1], At1(recombination_rate_, forward_rate_index(i_), g))
    IN  normalize(MulGrid(point_estimate_[i_], forward_i))

\* What a read of recombination_rate[idx] past the array may return.
RateGarbage(idx) == IF idx \in DOMAIN recombination_rate THEN {Zero} ELSE Rates

\* A plausible slip: the final normalisation left out (line 380 is such a
\* commented-out call).
final_normalize_skipped(grid) == grid

\* est[i,:,:] /= np.sum(est[i,:,:]) (line 384)
final_normalize(grid) == normalize(grid)

InitFB ==
    /\ pc = "backward"
    /\ entry = "diploidForwardBackward"
    /\ \E s \in Shapes :
          /\ point_estimate \in Tensors(s[1], s[2], s[3], Weights)
          /\ recombination_rate \in [Idx(s[1]) -> Rates]
          /\ i = s[1] - 2
    /\ est = ones_like(point_estimate)
    /\ emission = point_estimate
    /\ NoSampler /\ NoPedigree
    /\ in_place = TRUE
    /\ combined = None
    /\ callingMethod = None /\ useCalledHaps = None
    /\ indGeno = None /\ indPatHap = None /\ indMatHap = None /\ indProbs = None
    /\ paternalHaplotypes = None /\ maternalHaplotypes = None /\ error = None
    /\ previous_estimate = None /\ output = None
    /\ ind_dosages = None /\ ind_info = None

\* A plausible slip: the backward pass writing its slices into the tensor it
\* is given (backward = point_estimate) instead of a tensor of its own.
BackwardStep_into_point_estimate ==
    /\ pc = "backward"
    /\ i >= 0
    /\ \E g \in RateGarbage(backward_rate_index(i)) :
          LET slice == backward_step(est, point_estimate, recombination_rate, i, g)
          IN  /\ est' = [est EXCEPT ![i] = slice]
              /\ point_estimate' = [point_estimate EXCEPT ![i] = slice]
    /\ i' = i - 1
    /\ UNCHANGED <<pc, inputs, in_place, combined, ind_dosages, ind_info>>

\* diploid_backward, lines 358-365: for i in range(n_loci-2, -1, -1).
BackwardStep ==
    /\ pc = "backward"
    /\ i >= 0
    /\ \E g \in RateGarbage(backward_rate_index(i)) :
          est' = [est EXCEPT ![i] = backward_step(est, point_estimate, recombination_rate, i, g)]
    /\ i' = i - 1
    /\ UNCHANGED <<pc, inputs, point_estimate, in_place, combined, ind_dosages, ind_info>>

\* diploid_backward returns (line 367); diploid_forward starts, in place
\* (lines 315-329): combined is point_estimate itself, and its first slice
\* is divided.
ForwardFirst ==
    /\ pc = "backward"
    /\ i < 0
    /\ LET c == [point_estimate EXCEPT
                    ![0] = DivGrid(point_estimate[0], forward_first_divisor(point_estimate))]
       IN  /\ combined' = c
           /\ point_estimate' = IF in_place THEN c ELSE point_estimate
    /\ pc' = "forward"
    /\ i' = 1
    /\ UNCHANGED <<inputs, in_place, est, ind_dosages, ind_info>>

\* diploid_forward, lines 330-339: for i in range(1, n_loci).
ForwardStep ==
    /\ pc = "forward"
    /\ i < n_loci_of(combined)
    /\ \E g \in RateGarbage(forward_rate_index(i)) :
          LET c == [combined EXCEPT
                      ![i] = forward_step(combined, point_estimate, recombination_rate, i, g)]
          IN  /\ combined' = c
              /\ point_estimate' = IF in_place THEN c ELSE point_estimate
    /\ i' = i + 1
    /\ UNCHANGED <<pc, inputs, in_place, est, ind_dosages, ind_info>>

\* diploid_forward returns (line 341) and est *= its result (line 377).
Multiply ==
    /\ pc = "forward"
    /\ i >= n_loci_of(combined)
    /\ est' = [a \in DOMAIN est |-> MulGrid(est[a], combined[a])]
    /\ pc' = "normalize"
    /\ i' = 0
    /\ UNCHANGED <<inputs, point_estimate, in_place, combined, ind_dosages, ind_info>>

\* diploidForwardBackward, lines 383-384: for i in range(n_loci).
NormalizeStep ==
    /\ pc = "normalize"
    /\ i < n_loci_of(est)
    /\ est' = [est EXCEPT ![i] = final_normalize(est[i])]
    /\ i' = i + 1
    /\ UNCHANGED <<pc, inputs, point_estimate, in_place, combined, ind_dosages, ind_info>>

\* diploidForwardBackward returns est (line 386).
ReturnFB ==
    /\ pc = "normalize"
    /\ i >= n_loci_of(est)
    /\ entry = "diploidForwardBackward"
    /\ pc' = "done"
    /\ UNCHANGED <<inputs, point_estimate, in_place, combined, est, i, ind_dosages, ind_info>>

\* A call of diploid_forward on its own, with either value of in_place.
InitForward ==
    /\ pc = "forward_call"
    /\ entry = "diploid_forward"
    /\ \E s \in Shapes :
          /\ point_estimate \in Tensors(s[1], s[2], s[3], Weights)
          /\ recombination_rate \in [Idx(s[1]) -> Rates]
    /\ in_place \in BOOLEAN
    /\ emission = point_estimate
    /\ NoSampler /\ NoPedigree
    /\ combined = None /\ est = None /\ i = None
    /\ callingMethod = None /\ useCalledHaps = None
    /\ indGeno = None /\ indPatHap = None /\ indMatHap = None /\ indProbs = None
    /\ paternalHaplotypes = None /\ maternalHaplotypes = None /\ error = None
    /\ previous_estimate = None /\ output = None
    /\ ind_dosages = None /\ ind_info = None

\* Lines 315-329: combined is point_estimate itself or a copy of it, and its
\* first slice is divided.
ForwardCall ==
    /\ pc = "forward_call"
    /\ LET c == [point_estimate EXCEPT
                    ![0] = DivGrid(point_estimate[0], forward_first_divisor(point_estimate))]
       IN  /\ combined' = c
           /\ point_estimate' = IF in_place THEN c ELSE point_estimate
    /\ pc' = "forward"
    /\ i' = 1
    /\ UNCHANGED <<inputs, in_place, est, ind_dosages, ind_info>>

\* diploid_forward returns combined to its caller (line 341).
ReturnForward ==
    /\ pc = "forward"
    /\ i >= n_loci_of(combined)
    /\ entry = "diploid_forward"
    /\ pc' = "done"
    /\ UNCHANGED <<inputs, point_estimate, in_place, combined, est, i, ind_dosages, ind_info>>

NextForward ==
    \/ ForwardCall
    \/ ForwardStep
    \/ ReturnForward

SpecForward == InitForward /\ [][NextForward]_vars

\* diploidForwardBackward called with the emission of an individual whose
\* genotype is missing at every locus (weight 1 everywhere, lines 105-107),
\* at the rates of the model and at rate 1/2.
UniformRates == Rates \cup {Q(1, 2)}

UniformShapes == (1 .. MaxLoci) \X (1 .. MaxHap) \X (1 .. MaxHap)

InitFBUniform ==
    /\ pc = "backward"
    /\ entry = "diploidForwardBackward"
    /\ \E s \in UniformShapes :
          /\ point_estimate = [a \in Idx(s[1]) |-> [j \in Idx(s[2]) |-> [k \in Idx(s[3]) |-> One]]]
          /\ recombination_rate \in [Idx(s[1]) -> UniformRates]
          /\ i = s[1] - 2
    /\ est = ones_like(point_estimate)
    /\ emission = point_estimate
    /\ NoSampler /\ NoPedigree
    /\ in_place = TRUE
    /\ combined = None
    /\ callingMethod = None /\ useCalledHaps = None
    /\ indGeno = None /\ indPatHap = None /\ indMatHap = None /\ indProbs = None
    /\ paternalHaplotypes = None /\ maternalHaplotypes = None /\ error = None
    /\ previous_estimate = None /\ output = None
    /\ ind_dosages = None /\ ind_info = None

NextFB ==
    \/ BackwardStep
    \/ ForwardFirst
    \/ ForwardStep
    \/ Multiply
    \/ NormalizeStep
    \/ ReturnFB

SpecFB == InitFB /\ [][NextFB]_vars

SpecFBUniform == InitFBUniform /\ [][NextFB]_vars

(***************************************************************************)
(* diploidOneSample and combine_backward_sampled_value                     *)
(* (src/DiploidHMM.py:406-501), one action per draw.                       *)
(***************************************************************************)
\* combine_backward_sampled_value with the two single-recombination terms
\* divided as transmit divides them (lines 300-301).
combine_backward_sampled_value_as_transmit(previous_estimate_, pat_hap, mat_hap, e) ==
    LET n_pat == Len0(previous_estimate_)
        n_mat == Len0(previous_estimate_[0])
        single_rec == Mul(Sub(One, e), e)
        no_rec == Mul(Sub(One, e), Sub(One, e))
        double_rec == Mul(e, e)
        out(j, k) ==
            Add(Add(Add(Div(double_rec, FromInt(n_mat * n_pat)),
                        IF j = pat_hap THEN Div(single_rec, FromInt(n_pat)) ELSE Zero),
                    IF k = mat_hap THEN Div(single_rec, FromInt(n_mat)) ELSE Zero),
                IF j = pat_hap /\ k = mat_hap THEN no_rec ELSE Zero)
    IN  [j \in Idx(n_pat) |-> [k \in Idx(n_mat) |-> Mul(out(j, k), previous_estimate_[j][k])]]

\* combine_backward_sampled_value without its last step, output *=
\* previous_estimate (line 500).
combine_backward_sampled_value_without_forward(previous_estimate_, pat_hap, mat_hap, e) ==
    LET n_pat == Len0(previous_estimate_)
        n_mat == Len0(previous_estimate_[0])
        single_rec == Mul(Sub(One, e), e)
        no_rec == Mul(Sub(One, e), Sub(One, e))
        double_rec == Mul(e, e)
        out(j, k) ==
            Add(Add(Add(Div(double_rec, FromInt(n_mat * n_pat)),
                        IF j = pat_hap THEN Div(single_rec, FromInt(n_mat)) ELSE Zero),
                    IF k = mat_hap THEN Div(single_rec, FromInt(n_pat)) ELSE Zero),
                IF j = pat_hap /\ k = mat_hap THEN no_rec ELSE Zero)
    IN  [j \in Idx(n_pat) |-> [k \in Idx(n_mat) |-> out(j, k)]]

\* combine_backward_sampled_value (lines 462-501): the grid it writes to
\* output.
combine_backward_sampled_value(previous_estimate_, pat_hap, mat_hap, e) ==
    LET n_pat == Len0(previous_estimate_)
        n_mat == Len0(previous_estimate_[0])
        single_rec == Mul(Sub(One, e), e)
        no_rec == Mul(Sub(One, e), Sub(One, e))
        double_rec == Mul(e, e)
        out(j, k) ==
            Add(Add(Add(Div(double_rec, FromInt(n_mat * n_pat)),
                        IF j = pat_hap THEN Div(single_rec, FromInt(n_mat)) ELSE Zero),
                    IF k = mat_hap THEN Div(single_rec, FromInt(n_pat)) ELSE Zero),
                IF j = pat_hap /\ k = mat_hap THEN no_rec ELSE Zero)
    IN  [j \in Idx(n_pat) |-> [k \in Idx(n_mat) |-> Mul(out(j, k), previous_estimate_[j][k])]]

\* The entry of recombination_rate the draw of locus i uses (line 426).
sampler_rate_index(i_) == i_ + 1

\* The cells of a grid.
Cells(grid) == {<<j, k>> : j \in DOMAIN grid, k \in DOMAIN grid[0]}

\* NumbaUtils.multinomial_sample_2d(pvals): the pairs a categorical draw over
\* the weights may return, the cells of positive weight; with no such cell
\* (all weights zero, or NaN) the draw is not defined and may return any cell.
multinomial_sample_2d(pvals_) ==
    LET positive == {c \in Cells(pvals_) : ~IsNaN(pvals_[c[1]][c[2]]) /\ pvals_[c[1]][c[2]][1] > 0}
    IN  IF positive # {} THEN positive ELSE Cells(pvals_)

\* pvals of the draw of locus i (lines 423-426).
sample_weights(forward_probs_, paternal_indices_, maternal_indices_, recombination_rate_, i_) ==
    IF i_ = n_loci_of(forward_probs_) - 1
    THEN forward_probs_[i_]
    ELSE combine_backward_sampled_value(forward_probs_[i_], paternal_indices_[i_ + 1],
                                        maternal_indices_[i_ + 1],
                                        recombination_rate_[sampler_rate_index(i_)])

\* An index array entry not written yet (np.empty, line 417-418); no entry is
\* read before it is written.
NotSampled == -1

\* The forward-combined tensors diploid_forward returns (lines 311-341), the
\* forward_probs of a call.
RECURSIVE forward_slice(_, _, _)
forward_slice(point_estimate_, recombination_rate_, a) ==
    IF a = 0
    THEN DivGrid(point_estimate_[0], forward_first_divisor(point_estimate_))
    ELSE normalize(MulGrid(point_estimate_[a],
                           transmit(forward_slice(point_estimate_, recombination_rate_, a - 1),
                                    recombination_rate_[forward_rate_index(a)])))

diploid_forward(point_estimate_, recombination_rate_) ==
    [a \in DOMAIN point_estimate_ |-> forward_slice(point_estimate_, recombination_rate_, a)]

\* A call of diploidOneSample on the result of diploid_forward.
InitSampler ==
    /\ pc = "sample"
    /\ entry = "diploidOneSample"
    /\ \E s \in Shapes :
          \E pe \in Tensors(s[1], s[2], s[3], Weights) :
              /\ recombination_rate \in [Idx(s[1]) -> Rates]
              /\ forward_probs = diploid_forward(pe, recombination_rate)
              /\ i = s[1] - 1
              /\ paternal_indices = [a \in Idx(s[1]) |-> NotSampled]
              /\ maternal_indices = [a \in Idx(s[1]) |-> NotSampled]
    /\ pvals = None
    /\ NoPedigree
    /\ emission = None /\ point_estimate = None /\ in_place = None
    /\ combined = None /\ est = None
    /\ callingMethod = None /\ useCalledHaps = None
    /\ indGeno = None /\ indPatHap = None /\ indMatHap = None /\ indProbs = None
    /\ paternalHaplotypes = None /\ maternalHaplotypes = None /\ error = None
    /\ previous_estimate = None /\ output = None
    /\ ind_dosages = None /\ ind_info = None

\* One iteration of the loop of lines 421-430: for i in range(n_loci-1, -1, -1).
SampleStep ==
    /\ pc = "sample"
    /\ i >= 0
    /\ LET w == sample_weights(forward_probs, paternal_indices, maternal_indices, recombination_rate, i)
       IN  /\ pvals' = w
           /\ \E c \in multinomial_sample_2d(w) :
                 /\ paternal_indices' = [paternal_indices EXCEPT ![i] = c[1]]
                 /\ maternal_indices' = [maternal_indices EXCEPT ![i] = c[2]]
    /\ i' = i - 1
    /\ UNCHANGED <<pc, arguments, emission, forward_probs, point_estimate, in_place, combined, est, ind_dosages, ind_info,
                   pedigree, yielded, pedList>>

\* Lines 432-437: one more draw from the pvals of locus 0, and the return.
LastSample ==
    /\ pc = "sample"
    /\ i < 0
    /\ \E c \in multinomial_sample_2d(pvals) :
          /\ paternal_indices' = [paternal_indices EXCEPT ![0] = c[1]]
          /\ maternal_indices' = [maternal_indices EXCEPT ![0] = c[2]]
    /\ pc' = "done"
    /\ UNCHANGED <<arguments, emission, forward_probs, pvals, point_estimate, in_place, combined, est, i, ind_dosages, ind_info,
                   pedigree, yielded, pedList>>

NextSampler ==
    \/ SampleStep
    \/ LastSample

SpecSampler == InitSampler /\ [][NextSampler]_vars

(***************************************************************************)
(* The posterior decoders (src/DiploidHMM.py:68-98).                       *)
(***************************************************************************)
\* getDiploidDosages with the maternal allele left out of the dosage.
getDiploidDosages_paternal_only(hapEst, paternalHaplotypes_, maternalHaplotypes_, g) ==
    LET nPat == Len0(paternalHaplotypes_)
        nMat == Len0(maternalHaplotypes_)
        nLoci == Len0(maternalHaplotypes_[0])
        term(i_, j, k) == Mul(At3(hapEst, i_, j, k, g), FromInt(paternalHaplotypes_[j][i_]))
    IN  [i_ \in Idx(nLoci) |->
            SumTo([c \in Idx(nPat * nMat) |-> term(i_, c \div nMat, c % nMat)], nPat * nMat)]

\* getDiploidDosages (lines 68-77).
getDiploidDosages(hapEst, paternalHaplotypes_, maternalHaplotypes_, g) ==
    LET nPat == Len0(paternalHaplotypes_)
        nMat == Len0(maternalHaplotypes_)
        nLoci == Len0(maternalHaplotypes_[0])
        term(i_, j, k) == Mul(At3(hapEst, i_, j, k, g), FromInt(paternalHaplotypes_[j][i_] + maternalHaplotypes_[k][i_]))
    IN  [i_ \in Idx(nLoci) |->
            SumTo([c \in Idx(nPat * nMat) |-> term(i_, c \div nMat, c % nMat)], nPat * nMat)]

\* The bucket of a hypothesis pair's alleles (lines 87-97).
bucket(patAllele, matAllele) == 2 * patAllele + matAllele

\* getDiploidProbabilities (lines 79-98): it reads hapEst[j, k, i].
getDiploidProbabilities(hapEst, paternalHaplotypes_, maternalHaplotypes_, g) ==
    LET nPat == Len0(paternalHaplotypes_)
        nMat == Len0(maternalHaplotypes_)
        nLoci == Len0(maternalHaplotypes_[0])
        term(b, i_, j, k) ==
            IF bucket(paternalHaplotypes_[j][i_], maternalHaplotypes_[k][i_]) = b
            THEN At3(hapEst, j, k, i_, g) ELSE Zero
    IN  [b \in Idx(4) |-> [i_ \in Idx(nLoci) |->
            SumTo([c \in Idx(nPat * nMat) |-> term(b, i_, c \div nMat, c % nMat)], nPat * nMat)]]

\* The number of cells of a tensor's buffer.
Size3(tensor) == Len0(tensor) * Len0(tensor[0]) * Len0(tensor[0][0])

\* What a read of the tensor past its buffer may return, when the greatest
\* index <<a, b, c>> a decoder reads lies past it.
TensorGarbage(tensor, a, b, c) ==
    IF (a * Len0(tensor[0]) + b) * Len0(tensor[0][0]) + c < Size3(tensor) THEN {Zero} ELSE Weights

\* A call of getDiploidDosages on its own, on a tensor of the shape
\* nLoci x nPat x nMat it indexes.
InitDosages ==
    /\ pc = "decode"
    /\ entry = "getDiploidDosages"
    /\ \E s \in Shapes :
          /\ est \in Tensors(s[1], s[2], s[3], Weights)
          /\ paternalHaplotypes \in Libraries(s[2], s[1])
          /\ maternalHaplotypes \in Libraries(s[3], s[1])
    /\ ind_dosages = None /\ ind_info = None
    /\ emission = None /\ NoSampler /\ NoPedigree
    /\ callingMethod = None /\ useCalledHaps = None
    /\ indGeno = None /\ indPatHap = None /\ indMatHap = None /\ indProbs = None
    /\ error = None /\ recombination_rate = None
    /\ point_estimate = None /\ in_place = None /\ combined = None /\ i = None
    /\ previous_estimate = None /\ output = None

\* getDiploidDosages runs to its return (lines 70-77).
Dosages ==
    /\ pc = "decode"
    /\ entry = "getDiploidDosages"
    /\ \E g \in TensorGarbage(est, Len0(maternalHaplotypes[0]) - 1, Len0(paternalHaplotypes) - 1, Len0(maternalHaplotypes) - 1) :
          ind_dosages' = getDiploidDosages(est, paternalHaplotypes, maternalHaplotypes, g)
    /\ pc' = "done"
    /\ UNCHANGED <<inputs, point_estimate, in_place, combined, est, i, ind_info>>

NextDosages == Dosages

SpecDosages == InitDosages /\ [][NextDosages]_vars

(***************************************************************************)
(* diploidHMM (src/DiploidHMM.py:7-58).                                    *)
(***************************************************************************)
CallingMethods == {"dosages", "probabilities", "callhaps", "viterbi"}

\* Genotype-probability matrices that put each locus on one state.
CalledProbMatrices(n_loci) ==
    {p \in ProbMatrices(n_loci) : \A r \in Idx(4), c \in Idx(n_loci) : p[r][c] \in {Zero, One}}

NoGarbage == [int |-> Missing, allele |-> 0, float |-> Zero]

Init ==
    /\ pc = "emission"
    /\ entry = "diploidHMM"
    /\ callingMethod \in CallingMethods
    /\ useCalledHaps \in BOOLEAN
    /\ \E s \in EmissionShapes :
          \* an unphased individual: its genotypes are read when
          \* useCalledHaps is true (line 30), its genotype probabilities
          \* when it is false (lines 32-33)
          /\ indPatHap = [c \in Idx(s[1]) |-> Missing]
          /\ indMatHap = [c \in Idx(s[1]) |-> Missing]
          /\ IF useCalledHaps
             THEN /\ indGeno \in [Idx(s[1]) -> Genotypes]
                  /\ indProbs = None
             ELSE /\ indGeno = [c \in Idx(s[1]) |-> Missing]
                  /\ indProbs \in CalledProbMatrices(s[1])
          /\ paternalHaplotypes \in Libraries(s[2], s[1])
          /\ maternalHaplotypes \in Libraries(s[3], s[1])
          \* error and recombinationRate given as floats (lines 18-22)
          /\ \E e \in Rates : error = [c \in Idx(s[1]) |-> e]
          /\ \E r \in Rates : recombination_rate = [c \in Idx(s[1]) |-> r]
    /\ point_estimate = None /\ in_place = None /\ combined = None /\ est = None
    /\ i = None /\ previous_estimate = None /\ output = None
    /\ ind_dosages = None /\ ind_info = None
    /\ emission = None /\ NoSampler /\ NoPedigree

\* Lines 29-41: the emission branch chosen by useCalledHaps, and the call of
\* diploidForwardBackward, which enters diploid_backward (lines 348-358).
HMMEmission ==
    /\ pc = "emission"
    /\ entry = "diploidHMM"
    /\ LET pointEst ==
            IF useCalledHaps
            THEN getDiploidPointEstimates(indGeno, indPatHap, indMatHap, paternalHaplotypes, maternalHaplotypes, error, NoGarbage)
            ELSE getDiploidPointEstimates_probs(indProbs, paternalHaplotypes, maternalHaplotypes, error, NoGarbage)
       IN  /\ point_estimate' = pointEst
           /\ est' = ones_like(pointEst)
           /\ i' = n_loci_of(pointEst) - 2
    /\ in_place' = TRUE
    /\ pc' = "backward"
    /\ UNCHANGED <<inputs, combined, ind_dosages, ind_info>>

\* diploidForwardBackward returns hapEst to diploidHMM (lines 386, 41).
ReturnHapEst ==
    /\ pc = "normalize"
    /\ i >= n_loci_of(est)
    /\ entry = "diploidHMM"
    /\ pc' = "decode"
    /\ UNCHANGED <<inputs, point_estimate, in_place, combined, est, i, ind_dosages, ind_info>>

\* Lines 47-49, and the return that follows for this callingMethod.
DecodeDosages ==
    /\ pc = "decode"
    /\ callingMethod = "dosages"
    /\ \E g \in TensorGarbage(est, Len0(maternalHaplotypes[0]) - 1, Len0(paternalHaplotypes) - 1, Len0(maternalHaplotypes) - 1) :
          ind_dosages' = getDiploidDosages(est, paternalHaplotypes, maternalHaplotypes, g)
    /\ pc' = "done"
    /\ UNCHANGED <<inputs, point_estimate, in_place, combined, est, i, ind_info>>

\* Lines 51-53, and the return that follows for this callingMethod.
DecodeProbabilities ==
    /\ pc = "decode"
    /\ callingMethod = "probabilities"
    /\ \E g \in TensorGarbage(est, Len0(paternalHaplotypes) - 1, Len0(maternalHaplotypes) - 1, Len0(maternalHaplotypes[0]) - 1) :
          ind_info' = getDiploidProbabilities(est, paternalHaplotypes, maternalHaplotypes, g)
    /\ pc' = "done"
    /\ UNCHANGED <<inputs, point_estimate, in_place, combined, est, i, ind_dosages>>

\* Lines 55-58: raise ValueError("... not yet implimented.").
RaiseNotImplemented ==
    /\ pc = "decode"
    /\ callingMethod \in {"callhaps", "viterbi"}
    /\ pc' = "error"
    /\ UNCHANGED <<inputs, point_estimate, in_place, combined, est, i, ind_dosages, ind_info>>

Next ==
    \/ HMMEmission
    \/ BackwardStep
    \/ ForwardFirst
    \/ ForwardStep
    \/ Multiply
    \/ NormalizeStep
    \/ ReturnHapEst
    \/ DecodeDosages
    \/ DecodeProbabilities
    \/ RaiseNotImplemented

Spec == Init /\ [][Next]_vars

(***************************************************************************)
(* Properties of the passes.                                               *)
(***************************************************************************)
SliceSumsToOne(grid) == Sum2(grid) = One

Positive(tensor) ==
    \A a \in DOMAIN tensor : \A j \in DOMAIN tensor[a] : \A k \in DOMAIN tensor[a][j] :
        ~IsNaN(tensor[a][j][k]) /\ tensor[a][j][k][1] > 0

\* C1: when no normalisation of the run met a slice summing to zero (no NaN
\*     was produced), every locus slice of the tensor diploidForwardBackward
\*     returns sums to 1.
C1_PosteriorNormalized ==
    pc = "done" /\ entry = "diploidForwardBackward" /\ ~TensorHasNaN(est) =>
        \A a \in DOMAIN est : SliceSumsToOne(est[a])

\* C1's case: a returned posterior of two loci without NaN that is not
\* uniform at a locus.
C1_Witness ==
    /\ pc = "done" /\ entry = "diploidForwardBackward"
    /\ n_loci_of(est) = 2 /\ Len0(est[0][0]) = 2
    /\ Positive(est)
    /\ est[1][0][0] # est[1][0][1]
    /\ recombination_rate[0] # Zero /\ recombination_rate[1] # Zero

\* C3: every locus slice of the tensor diploid_forward returns sums to 1 (a
\*     slice that met a zero sum aside); in particular slice 0.
C3_ForwardNormalized ==
    pc = "forward" /\ i >= n_loci_of(combined) /\ ~TensorHasNaN(combined) =>
        \A a \in DOMAIN combined : SliceSumsToOne(combined[a])

\* The backward tensor as C4 defines it: ones at the last locus, and at a
\* locus a before it transmit(normalize(backward[a+1] * emission[a+1]), recomb[a]).
RECURSIVE BackwardRef(_, _, _)
BackwardRef(emission_, recomb, a) ==
    IF a = n_loci_of(emission_) - 1
    THEN [j \in DOMAIN emission_[a] |-> [k \in DOMAIN emission_[a][j] |-> One]]
    ELSE transmit(normalize(MulGrid(BackwardRef(emission_, recomb, a + 1), emission_[a + 1])),
                  recomb[a])

\* The emission_ with the slice of locus t replaced by the constant grid w.
Perturbed(emission_, t, w) ==
    [emission_ EXCEPT ![t] = [j \in DOMAIN emission_[t] |-> [k \in DOMAIN emission_[t][j] |-> w]]]

\* C4: the tensor diploid_backward returns is 1 at the last locus and
\*     transmit(normalize(backward[a+1] * emission[a+1]), recomb[a]) before
\*     it, and backward[a] is the same for an emission changed at a locus
\*     t <= a.
C4_BackwardRecursion ==
    pc = "backward" /\ i < 0 =>
        \A a \in DOMAIN est :
            /\ est[a] = BackwardRef(point_estimate, recombination_rate, a)
            /\ \A t \in 0 .. a : \A w \in Weights :
                  est[a] = BackwardRef(Perturbed(point_estimate, t, w), recombination_rate, a)

\* C4's case: a returned backward tensor of two loci whose slice of locus 0
\* is not uniform (it carries the emission of locus 1).
C4_Witness ==
    /\ pc = "backward" /\ i < 0
    /\ n_loci_of(est) = 2 /\ Len0(est[0][0]) = 2
    /\ est[0][0][0] # est[0][0][1]
    /\ ~TensorHasNaN(est)

\* C6: a run that met a slice summing to zero (which leaves NaN in the
\*     tensor) never returns a result tensor.
C6_ZeroSumNeverReturns ==
    pc = "done" /\ entry = "diploidForwardBackward" => ~TensorHasNaN(est)

(***************************************************************************)
(* Properties of the emission model.                                       *)
(***************************************************************************)
\* C7: when the two libraries and the individual's data do not all have the
\*     same number of loci, emission construction fails (an error, or the
\*     process ending) and produces no tensor.
C7_MismatchFails ==
    LociMismatch /\ pc # "emission" => pc \in {"error", "crashed"} /\ point_estimate = None

\* The weight C8 states for a locus with both parental alleles observed.
C8_Weight(i_, j, k) ==
    Mul(IF paternalHaplotypes[j][i_] = indPatHap[i_] THEN Sub(One, error[i_]) ELSE error[i_],
        IF maternalHaplotypes[k][i_] = indMatHap[i_] THEN Sub(One, error[i_]) ELSE error[i_])

BothObserved(i_) == indPatHap[i_] # Missing /\ indMatHap[i_] # Missing

Returned(name) == pc = "done" /\ entry = name

\* C8 as stated: at every locus with both parental alleles observed the
\*     weight of (j,k) is a*b, whatever the genotype code at the locus.
C8_PhasedWhateverGenotype ==
    Returned("getDiploidPointEstimates") =>
        \A i_ \in DOMAIN indGeno : BothObserved(i_) =>
            \A j \in DOMAIN paternalHaplotypes, k \in DOMAIN maternalHaplotypes :
                point_estimate[i_][j][k] = C8_Weight(i_, j, k)

\* C8 amended: at every locus with both parental alleles observed the weight
\*     of (j,k) is a*b whatever the genotype code 0, 1 or 2 at the locus, and
\*     it is 1 when the genotype code is 9 (missing).
C8_PhasedObservedGenotype ==
    Returned("getDiploidPointEstimates") =>
        \A i_ \in DOMAIN indGeno : BothObserved(i_) =>
            \A j \in DOMAIN paternalHaplotypes, k \in DOMAIN maternalHaplotypes :
                point_estimate[i_][j][k] =
                    IF indGeno[i_] # Missing THEN C8_Weight(i_, j, k) ELSE One

\* C8's case: two loci with both parental alleles observed and a genotype
\* code that disagrees with them, weighted by the alleles alone.
C8_Witness ==
    /\ Returned("getDiploidPointEstimates")
    /\ Len0(indGeno) = 2
    /\ \A i_ \in DOMAIN indGeno : BothObserved(i_) /\ indGeno[i_] # Missing
    /\ indGeno[1] # indPatHap[1] + indMatHap[1]
    /\ error[0] # error[1] /\ error[1] = Q(1, RateDen)
    /\ point_estimate[0][0][0] # point_estimate[1][0][0]
    /\ point_estimate[1][0][0] = Mul(error[1], Sub(One, error[1]))

\* C9: at a locus with a genotype and at least one parental allele missing
\*     the weight of (j,k) is 1-error^2 when the two library alleles sum to
\*     the genotype and error^2 otherwise; at a locus whose genotype is
\*     missing it is 1.
C9_UnphasedAndMissing ==
    Returned("getDiploidPointEstimates") =>
        \A i_ \in DOMAIN indGeno :
            \A j \in DOMAIN paternalHaplotypes, k \in DOMAIN maternalHaplotypes :
                /\ indGeno[i_] # Missing /\ ~BothObserved(i_) =>
                      point_estimate[i_][j][k] =
                          IF paternalHaplotypes[j][i_] + maternalHaplotypes[k][i_] = indGeno[i_]
                          THEN Sub(One, Mul(error[i_], error[i_]))
                          ELSE Mul(error[i_], error[i_])
                /\ indGeno[i_] = Missing => point_estimate[i_][j][k] = One

\* C9's case: a locus with a genotype and one parental allele missing beside
\* a locus whose genotype is missing but whose parental alleles are observed.
C9_Witness ==
    /\ Returned("getDiploidPointEstimates")
    /\ Len0(indGeno) = 2
    /\ indGeno[0] # Missing /\ indPatHap[0] # Missing /\ indMatHap[0] = Missing
    /\ indGeno[1] = Missing /\ BothObserved(1)
    /\ error[0] = Q(1, RateDen) /\ error[1] # error[0]
    /\ point_estimate[0][0][0] = Sub(One, Mul(error[0], error[0]))
    /\ point_estimate[1][0][0] = One

\* The alleles <<paternal, maternal>> of genotype-probability row r:
\* (0,0), (0,1), (1,0), (1,1).
StateAlleles(r) == <<r \div 2, r % 2>>

\* The weight C10 states: the sum over the 4 rows of P(row) times (1-e)^2,
\* e(1-e) or e^2 by the number of hypothesis alleles the row disagrees with.
C10_Weight(i_, j, k) ==
    LET e == error[i_]
        mismatches(r) ==
            (IF StateAlleles(r)[1] = paternalHaplotypes[j][i_] THEN 0 ELSE 1)
            + (IF StateAlleles(r)[2] = maternalHaplotypes[k][i_] THEN 0 ELSE 1)
        factor(r) ==
            CASE mismatches(r) = 0 -> Mul(Sub(One, e), Sub(One, e))
              [] mismatches(r) = 1 -> Mul(e, Sub(One, e))
              [] mismatches(r) = 2 -> Mul(e, e)
    IN  SumTo([r \in Idx(4) |-> Mul(indProbs[r][i_], factor(r))], 4)

\* C10: every weight getDiploidPointEstimates_probs writes is that sum.
C10_ProbsExpectation ==
    Returned("getDiploidPointEstimates_probs") =>
        \A j \in DOMAIN paternalHaplotypes, k \in DOMAIN maternalHaplotypes :
            \A i_ \in DOMAIN error : point_estimate[j][k][i_] = C10_Weight(i_, j, k)

\* C10's case: probability split between the two heterozygous rows at an
\* error rate that tells the three factors apart.
C10_Witness ==
    /\ Returned("getDiploidPointEstimates_probs")
    /\ Len0(error) = 2
    /\ error[1] = Q(1, RateDen) /\ error[0] # error[1]
    /\ indProbs[1][1] = Q(1, ProbDen) /\ indProbs[3][1] = Q(ProbDen - 1, ProbDen)
    /\ paternalHaplotypes[0][1] = 1 /\ maternalHaplotypes[0][1] = 0
    /\ point_estimate[0][0][1] = C10_Weight(1, 0, 0)

(***************************************************************************)
(* Properties of diploidHMM.                                               *)
(***************************************************************************)
\* C5: a call with callingMethod "viterbi" or "callhaps" fails at the entry
\*     point: it is at its entry or has raised, no emission tensor was built
\*     and no pass has run, and the individual is unchanged.
C5_FailsBeforeComputation ==
    entry = "diploidHMM" /\ callingMethod \in {"viterbi", "callhaps"} =>
        /\ pc \in {"emission", "error"}
        /\ point_estimate = None /\ combined = None /\ est = None
        /\ ind_dosages = None /\ ind_info = None

\* x <= y on rationals.
Leq(x, y) == x[1] * y[2] <= y[1] * x[2]

\* The pairs <<j, k>> of the two libraries, in the order the loops visit them.
PairAt(c) == <<c \div Len0(maternalHaplotypes), c % Len0(maternalHaplotypes)>>

NumPairs == Len0(paternalHaplotypes) * Len0(maternalHaplotypes)

\* C11: whichever emission branch diploidHMM takes, the tensor it hands to
\*      diploidForwardBackward has shape nLoci x nHapPat x nHapMat.
C11_TensorLayout ==
    entry = "diploidHMM" /\ pc # "emission" =>
        /\ Len0(point_estimate) = Len0(indGeno)
        /\ Len0(point_estimate[0]) = Len0(paternalHaplotypes)
        /\ Len0(point_estimate[0][0]) = Len0(maternalHaplotypes)

\* The dosage C12 states for locus i_ of the posterior est.
C12_Dosage(i_) ==
    SumTo([c \in Idx(NumPairs) |->
              Mul(est[i_][PairAt(c)[1]][PairAt(c)[2]],
                  FromInt(paternalHaplotypes[PairAt(c)[1]][i_] + maternalHaplotypes[PairAt(c)[2]][i_]))],
          NumPairs)

\* C12: for a posterior est of shape nLoci x nPat x nMat, the dosage of every
\*      locus is the sum over the pairs (j,k) of est[i,j,k] times the sum of
\*      the two library alleles, and it lies in [0,2] when the slices of est
\*      sum to 1.
C12_DosageSum ==
    Returned("getDiploidDosages") =>
        \A i_ \in DOMAIN est :
            /\ ind_dosages[i_] = C12_Dosage(i_)
            /\ (\A a \in DOMAIN est : SliceSumsToOne(est[a])) =>
                  Leq(Zero, ind_dosages[i_]) /\ Leq(ind_dosages[i_], FromInt(2))

\* C12's case: a dosage strictly between two allele counts, from a posterior
\* over 2 x 2 hypothesis pairs.
C12_Witness ==
    /\ Returned("getDiploidDosages")
    /\ Len0(paternalHaplotypes) = 2 /\ Len0(maternalHaplotypes) = 2
    /\ SliceSumsToOne(est[0])
    /\ ind_dosages[0] \notin {FromInt(0), FromInt(1), FromInt(2)}
    /\ ~IsNaN(ind_dosages[0])

\* The posterior mass of locus i_ on the pairs whose alleles map to bucket b.
C13_Bucket(b, i_) ==
    SumTo([c \in Idx(NumPairs) |->
              IF 2 * paternalHaplotypes[PairAt(c)[1]][i_] + maternalHaplotypes[PairAt(c)[2]][i_] = b
              THEN est[i_][PairAt(c)[1]][PairAt(c)[2]] ELSE Zero],
          NumPairs)

\* C13: in "probabilities" mode, for the posterior as diploidForwardBackward
\*      returns it (nLoci x nPat x nMat), bucket b of locus i is the posterior
\*      mass of locus i on the pairs whose alleles map to b, and the four
\*      buckets of a locus sum to 1.
C13_ProbabilityBuckets ==
    pc = "done" /\ callingMethod = "probabilities" /\ useCalledHaps /\ ~TensorHasNaN(est) =>
        \A i_ \in DOMAIN indGeno :
            /\ \A b \in Idx(4) : ind_info[b][i_] = C13_Bucket(b, i_)
            /\ SumTo([b \in Idx(4) |-> ind_info[b][i_]], 4) = One

\* C19: transmit preserves total mass: for an input grid summing to 1, the
\*      output grid sums to 1, whatever the rate and the two library sizes.
C19_TransmitPreservesMass ==
    pc = "done" /\ entry = "transmit" /\ Sum2(previous_estimate) = One =>
        Sum2(output) = One

\* Every recombination rate of the call is 0.
RatesAllZero == \A a \in DOMAIN recombination_rate : recombination_rate[a] = Zero

\* The elementwise product of the emissions of loci 0 .. n-1.
RECURSIVE EmissionProduct(_, _)
EmissionProduct(emission_, n) ==
    IF n = 1
    THEN emission_[0]
    ELSE [j \in DOMAIN emission_[0] |-> [k \in DOMAIN emission_[0][j] |->
            Mul(EmissionProduct(emission_, n - 1)[j][k], emission_[n - 1][j][k])]]

\* C14: with rate 0 at every locus, and a product of the emissions of all
\*      loci that is not zero everywhere, the posterior of every locus is
\*      that product divided by its sum; a pair of zero weight in the product
\*      has posterior zero at every locus.
C14_StaticInference ==
    Returned("diploidForwardBackward") /\ RatesAllZero =>
        LET product == EmissionProduct(emission, n_loci_of(emission))
        IN  Sum2(product) # Zero =>
                \A a \in DOMAIN est : \A j \in DOMAIN est[a] : \A k \in DOMAIN est[a][j] :
                    /\ est[a][j][k] = Div(product[j][k], Sum2(product))
                    /\ product[j][k] = Zero => est[a][j][k] = Zero

\* C14's case: two loci with different emissions at rate 0, one pair the
\* emissions rule out only together with the other locus.
C14_Witness ==
    /\ Returned("diploidForwardBackward") /\ RatesAllZero
    /\ n_loci_of(emission) = 2 /\ Len0(emission[0][0]) = 2
    /\ emission[0][0][0] = Zero /\ emission[1][0][0] # Zero
    /\ emission[0][0][1] # Zero /\ emission[1][0][1] # Zero
    /\ est[1][0][0] = Zero /\ est[1][0][1] = One

\* C15: when every emission weight is 1 (the genotype missing at every
\*      locus), the posterior of every locus is 1/(nPat*nMat) at every pair,
\*      whatever the number of loci and the rates.
C15_MissingGivesUniform ==
    Returned("diploidForwardBackward") /\ emission = ones_like(emission) =>
        \A a \in DOMAIN est : \A j \in DOMAIN est[a] : \A k \in DOMAIN est[a][j] :
            est[a][j][k] = Q(1, Len0(est[a]) * Len0(est[a][j]))

\* C15's case: 2 loci, 2 x 2 libraries, rate 1/2 at both loci.
C15_Witness ==
    /\ Returned("diploidForwardBackward") /\ emission = ones_like(emission)
    /\ n_loci_of(est) = 2 /\ Len0(est[0]) = 2 /\ Len0(est[0][0]) = 2
    /\ \A a \in DOMAIN recombination_rate : recombination_rate[a] = Q(1, 2)
    /\ \A a \in Idx(2), j \in Idx(2), k \in Idx(2) : est[a][j][k] = Q(1, 4)

\* The forward tensor of an emission that nothing overwrites: slice 0 over
\* the sum of the whole tensor, slice a the emission of a times the
\* transmitted slice a-1, over its sum.
RECURSIVE ForwardRef(_, _, _)
ForwardRef(emission_, recomb, a) ==
    IF a = 0
    THEN DivGrid(emission_[0], Sum3(emission_))
    ELSE normalize(MulGrid(emission_[a], transmit(ForwardRef(emission_, recomb, a - 1), recomb[a])))

\* C18: diploid_forward returns the same tensor with in_place true as with
\*      in_place false, the one computed from the emission as given: while
\*      the loop runs the slices from i on still hold the emission, and with
\*      in_place false point_estimate is left as given.
C18_InPlaceSameResult ==
    entry = "diploid_forward" =>
        /\ pc = "forward" =>
              \A a \in DOMAIN emission : a >= i => point_estimate[a] = emission[a]
        /\ pc = "done" =>
              /\ \A a \in DOMAIN emission :
                    combined[a] = ForwardRef(emission, recombination_rate, a)
              /\ point_estimate = IF in_place THEN combined ELSE emission

\* C18's case: an in-place run over two loci that has overwritten both
\* slices of point_estimate.
C18_Witness ==
    /\ Returned("diploid_forward") /\ in_place
    /\ n_loci_of(emission) = 2 /\ Len0(emission[0][0]) = 2
    /\ ~TensorHasNaN(combined)
    /\ point_estimate[0] # emission[0] /\ point_estimate[1] # emission[1]
    /\ combined[1][0][0] # combined[1][0][1]
    /\ recombination_rate[1] # Zero

(***************************************************************************)
(* Properties of the sampler.                                              *)
(***************************************************************************)
\* The locus of the draw made last.
LastDrawn == i + 1

\* The weight C16 states for cell (j,k) of locus a, at rate e.
C16_Weight(a, j, k, e) ==
    LET n_pat == Len0(forward_probs[a])
        n_mat == Len0(forward_probs[a][0])
        p == paternal_indices[a + 1]
        m == maternal_indices[a + 1]
    IN  Mul(forward_probs[a][j][k],
            Add(Add(Add(Div(Mul(e, e), FromInt(n_pat * n_mat)),
                        IF j = p THEN Div(Mul(Sub(One, e), e), FromInt(n_mat)) ELSE Zero),
                    IF k = m THEN Div(Mul(Sub(One, e), e), FromInt(n_pat)) ELSE Zero),
                IF j = p /\ k = m THEN Mul(Sub(One, e), Sub(One, e)) ELSE Zero))

\* The weights of the draw made last, of locus a, are those C16 states, at
\* the rate read from entry a + shift of recombination_rate.
C16_Weights(shift) ==
    entry = "diploidOneSample" /\ pc = "sample" /\ LastDrawn \in DOMAIN forward_probs =>
        LET a == LastDrawn
        IN  /\ \A b \in DOMAIN forward_probs :
                  (paternal_indices[b] # NotSampled) = (b >= a)
            /\ IF a = n_loci_of(forward_probs) - 1
               THEN pvals = forward_probs[a]
               ELSE \A j \in DOMAIN pvals, k \in DOMAIN pvals[0] :
                       pvals[j][k] = C16_Weight(a, j, k, recombination_rate[a + shift])

AllMassOn(grid, c) ==
    \A d \in Cells(grid) : (grid[d[1]][d[2]] # Zero) = (d = c)

\* C17: when the forward-combined slice of locus a has all its mass on one
\*      pair, diploidOneSample returns that pair at locus a, whatever it
\*      drew at the other loci (for a forward tensor without NaN).
C17_SamplerConsistency ==
    Returned("diploidOneSample") /\ ~TensorHasNaN(forward_probs) =>
        \A a \in DOMAIN forward_probs : \A c \in Cells(forward_probs[a]) :
            AllMassOn(forward_probs[a], c) =>
                paternal_indices[a] = c[1] /\ maternal_indices[a] = c[2]

\* C17's case: locus 0 has all its mass on pair (1,0) while locus 1 is
\* spread over both pairs and the other pair, (0,0), was drawn there.
C17_Witness ==
    /\ Returned("diploidOneSample") /\ ~TensorHasNaN(forward_probs)
    /\ n_loci_of(forward_probs) = 2 /\ Len0(forward_probs[0]) = 2
    /\ AllMassOn(forward_probs[0], <<1, 0>>)
    /\ forward_probs[1][0][0] # Zero /\ forward_probs[1][1][0] # Zero
    /\ paternal_indices[1] = 0
    /\ paternal_indices[0] = 1 /\ maternal_indices[0] = 0

(***************************************************************************)
(* The rate of a transition.                                               *)
(***************************************************************************)
\* C20: for every pair of adjacent loci (a, a+1) the sweeps use the same
\*      entry of recombination_rate, the rate of locus a: the backward slice
\*      of a is transmitted from a+1 at rate recombination_rate[a], and the
\*      forward slice of a+1 is transmitted from a at that same rate.
C20_SameRateEntry ==
    entry = "diploidForwardBackward" /\ pc = "forward" /\ i >= n_loci_of(combined) =>
        \A a \in DOMAIN emission : a + 1 \in DOMAIN emission =>
            /\ est[a] = transmit(normalize(MulGrid(est[a + 1], emission[a + 1])),
                                 recombination_rate[a])
            /\ combined[a + 1] = normalize(MulGrid(emission[a + 1],
                                                   transmit(combined[a], recombination_rate[a])))


\* C21: in diploidForwardBackward, as long as the backward pass runs the
\*      point-estimate tensor is the emission as given, the tensor the
\*      backward pass fills is never the point-estimate tensor's content
\*      written back, and once the in-place forward pass overwrites slices
\*      the backward tensor is the one computed from the original emission.
C21_BackwardBeforeInPlaceForward ==
    entry = "diploidForwardBackward" =>
        /\ pc = "backward" => point_estimate = emission
        /\ pc = "forward" =>
              \A a \in DOMAIN est : est[a] = BackwardRef(emission, recombination_rate, a)

\* C21's case: the in-place forward pass has overwritten slice 1 of the
\* point-estimate tensor, after a backward pass over two loci whose slice
\* of locus 0 carries the emission of locus 1.
C21_Witness ==
    /\ entry = "diploidForwardBackward"
    /\ pc = "forward" /\ i >= 2
    /\ n_loci_of(est) = 2 /\ Len0(est[0][0]) = 2
    /\ point_estimate[1] # emission[1]
    /\ est[0][0][0] # est[0][0][1]
    /\ ~TensorHasNaN(est) /\ ~TensorHasNaN(point_estimate)

(***************************************************************************)
(* The Pedigree of src/Pedigree.py: the operations that add individuals,   *)
(* and iteration over the pedigree.                                        *)
(*                                                                         *)
(* An identifier is a sequence of tokens: <<"A">> is the string "A" and    *)
(* <<"FatherOf", "A">> the string "FatherOf" + "A".  An optional value is  *)
(* a sequence too: <<>> is Python's None and <<v>> the value v.  The       *)
(* Individual objects live in pedigree.objects, where the object with      *)
(* identity number idn is objects[idn + 1]; a reference to an Individual   *)
(* is its idn.  pedigree.individuals is the dictionary, in insertion       *)
(* order, as a sequence of <<idx, idn>> items.  Of an Individual the model  *)
(* keeps what the shape of the pedigree and its iteration depend on: its   *)
(* identifier, its parents, its generation and its dummy flag.  The data   *)
(* the readers attach to it (sex, offspring, fileIndex, inbred,            *)
(* imputationAncestors, genotypes) are left out.                           *)
(***************************************************************************)
Ids == {<<"A">>, <<"B">>}

\* The bounds of the pedigree model: rows of a pedigree list, identifiers of
\* an id list, lines of a plant file and tokens of such a line, and
\* Individual objects constructed.
MaxRows == 2
MaxPlinkRows == 1
MaxIdList == 1
MaxLines == 1
MaxTokens == 3
MaxIdn == 3

Absent == <<>>

Some(v) == <<v>>

\* Individual.__init__ (lines 42-88).
Individual(idx, idn) ==
    [idx |-> idx, idn |-> idn, sire |-> Absent, dam |-> Absent, dummy |-> FALSE,
     generation |-> Absent]

\* Pedigree.__init__ with no file name (lines 157-184).
Pedigree ==
    [maxIdn |-> 0, individuals |-> <<>>, nGenerations |-> 0, generations |-> Absent,
     nLoci |-> 0, objects |-> <<>>]

\* idx in self.individuals
Has(self, idx) == \E n \in 1 .. Len(self.individuals) : self.individuals[n][1] = idx

\* self.individuals[idx], as a reference
Lookup(self, idx) ==
    self.individuals[CHOOSE n \in 1 .. Len(self.individuals) : self.individuals[n][1] = idx][2]

\* self.individuals[idx] = ind on a dictionary that keeps insertion order: a
\* key that is there keeps its place.
SetItem(individuals, idx, idn) ==
    IF \E n \in 1 .. Len(individuals) : individuals[n][1] = idx
    THEN [n \in 1 .. Len(individuals) |->
             IF individuals[n][1] = idx THEN <<idx, idn>> ELSE individuals[n]]
    ELSE Append(individuals, <<idx, idn>>)

\* self.individuals[idx] = self.constructor(idx, self.maxIdn); self.maxIdn += 1
\* (lines 314-315, 334-335, 360-361, 371-372, 389-390, 401-402, 433-434)
Construct(self, idx) ==
    [self EXCEPT !.objects = Append(@, Individual(idx, self.maxIdn)),
                 !.individuals = SetItem(@, idx, self.maxIdn),
                 !.maxIdn = @ + 1]

\* The construction of lines 334-335, 360-361 and 433-434, which an
\* identifier that is in the dictionary skips.
ConstructIfAbsent(self, idx) == IF Has(self, idx) THEN self ELSE Construct(self, idx)

\* Pedigree.getIndividual (lines 312-317): the pedigree after the call.
getIndividual(self, idx) ==
    IF Has(self, idx) THEN self
    ELSE [Construct(self, idx) EXCEPT !.generations = Absent]

\* The loop of addAncestors (lines 358-363) from part n on.
RECURSIVE addAncestors_loop(_, _, _)
addAncestors_loop(self, parts, n) ==
    IF n > Len(parts) THEN self
    ELSE addAncestors_loop(ConstructIfAbsent(self, parts[n]), parts, n + 1)

\* Pedigree.addAncestors (lines 357-364), ind a reference: the pedigree
\* after the call.
addAncestors(self, ind, parts) == addAncestors_loop(self, parts, 1)

\* The tokens of a line of a plant file, and "|" in line.
Bar == <<"|">>

HasBar(parts) == \E n \in 1 .. Len(parts) : parts[n] = Bar

BarAt(parts) == CHOOSE n \in 1 .. Len(parts) : parts[n] = Bar

\* parts[from:] for a 0-based from
Slice(parts, from) == SubSeq(parts, from + 1, Len(parts))

\* One iteration of readInPlantInfo's loop (lines 329-354) on the tokens of
\* a line.  first.split()[2:] is what precedes the bar without its first two
\* tokens, second.split() what follows it.
readInPlantInfo_line(self, parts) ==
    LET idx == parts[1]
        made == ConstructIfAbsent(self, idx)
        ind == Lookup(made, idx)
    IN  IF Len(parts) > 2
        THEN IF HasBar(parts)
             THEN LET first == SubSeq(parts, 1, BarAt(parts) - 1)
                      second == SubSeq(parts, BarAt(parts) + 1, Len(parts))
                  IN  addAncestors(addAncestors(made, ind, Slice(first, 2)), ind, second)
             ELSE addAncestors(made, ind, Slice(parts, 2))
        ELSE made

\* Pedigree.readInPlantInfo (lines 325-354) on the lines of the file, from
\* line n on.
RECURSIVE readInPlantInfo(_, _, _)
readInPlantInfo(self, lines, n) ==
    IF n > Len(lines) THEN self
    ELSE readInPlantInfo(readInPlantInfo_line(self, lines[n]), lines, n + 1)

\* The "0" of a pedigree list, for an unknown parent (lines 377-378).
Unknown == <<"0">>

\* The first loop of readInPedigreeFromList (lines 369-373) from row n on.
RECURSIVE readInPedigreeFromList_rows(_, _, _)
readInPedigreeFromList_rows(self, pedList_, n) ==
    IF n > Len(pedList_) THEN self
    ELSE readInPedigreeFromList_rows(Construct(self, pedList_[n][1]), pedList_, n + 1)

\* parts[1] and parts[2] of a row after lines 377-383: None for "0", and a
\* parent synthesized for the one that is missing of two.
row_sire(parts) ==
    IF parts[2] = Unknown
    THEN IF parts[3] = Unknown THEN Absent ELSE <<"FatherOf">> \o parts[1]
    ELSE parts[2]

row_dam(parts) ==
    IF parts[3] = Unknown
    THEN IF parts[2] = Unknown THEN Absent ELSE <<"MotherOf">> \o parts[1]
    ELSE parts[3]

\* The individual whose dummy flag the dam's branch sets (line 404):
\* self.individuals[parts[1]], the sire.
dam_dummy_target(sire_idx, dam_idx) == sire_idx

\* Lines 387-397 and 399-409: the parent named key is constructed if it is
\* not in the dictionary, with dummy set on the individual named flagged,
\* and made the sire or the dam of ind.
link_parent(self, ind, key, flagged, field) ==
    LET fresh == ~Has(self, key)
        made == IF fresh THEN Construct(self, key) ELSE self
        parent == Lookup(made, key)
        marked == IF fresh
                  THEN [made EXCEPT !.objects[Lookup(made, flagged) + 1].dummy = TRUE]
                  ELSE made
    IN  IF field = "sire"
        THEN [marked EXCEPT !.objects[ind + 1].sire = Some(parent)]
        ELSE [marked EXCEPT !.objects[ind + 1].dam = Some(parent)]

\* One iteration of the second loop of readInPedigreeFromList (lines
\* 375-409) on a row of three fields.
readInPedigreeFromList_row(self, parts) ==
    LET sire_idx == row_sire(parts)
        dam_idx == row_dam(parts)
        ind == Lookup(self, parts[1])
        with_sire == IF sire_idx # Absent
                     THEN link_parent(self, ind, sire_idx, sire_idx, "sire")
                     ELSE self
    IN  IF dam_idx # Absent
        THEN link_parent(with_sire, ind, dam_idx, dam_dummy_target(sire_idx, dam_idx), "dam")
        ELSE with_sire

\* The second loop (lines 375-409) from row n on.
RECURSIVE readInPedigreeFromList_links(_, _, _)
readInPedigreeFromList_links(self, pedList_, n) ==
    IF n > Len(pedList_) THEN self
    ELSE readInPedigreeFromList_links(readInPedigreeFromList_row(self, pedList_[n]),
                                      pedList_, n + 1)

\* Pedigree.readInPedigreeFromList (lines 367-417): the pedigree after the
\* call.
readInPedigreeFromList(self, pedList_) ==
    readInPedigreeFromList_links(readInPedigreeFromList_rows(self, pedList_, 1), pedList_, 1)

\* The loop of readInFromPlink (lines 425-443) from identifier n on, for a
\* bed of n_loci rows.  A bed whose number of loci is not the pedigree's
\* raises a ValueError (lines 430-431).
RECURSIVE readInFromPlink_loop(_, _, _, _)
readInFromPlink_loop(self, idList, n_loci, n) ==
    IF n > Len(idList) THEN [self |-> self, raised |-> FALSE]
    ELSE LET sized == IF self.nLoci = 0 THEN [self EXCEPT !.nLoci = n_loci] ELSE self
         IN  IF sized.nLoci # n_loci
             THEN [self |-> sized, raised |-> TRUE]
             ELSE readInFromPlink_loop(ConstructIfAbsent(sized, idList[n]),
                                       idList, n_loci, n + 1)

\* Pedigree.readInFromPlink (lines 419-443).
readInFromPlink(self, idList, pedList_, n_loci, externalPedigree) ==
    readInFromPlink_loop(
        IF externalPedigree THEN self ELSE readInPedigreeFromList(self, pedList_),
        idList, n_loci, 1)

Max(a, b) == IF a >= b THEN a ELSE b

\* Individual.getGeneration (lines 93-107) on the individual ind: the value
\* it returns and the objects with the generations it stored on the way.
\* A cycle of parents never returns: Python raises a RecursionError, here
\* when the depth passes the number of objects.
RECURSIVE getGeneration(_, _, _)
getGeneration(objects, ind, depth) ==
    IF depth > Len(objects) THEN [objects |-> objects, value |-> 0, raised |-> TRUE]
    ELSE IF objects[ind + 1].generation # Absent
    THEN [objects |-> objects, value |-> objects[ind + 1].generation[1], raised |-> FALSE]
    ELSE LET dam == objects[ind + 1].dam
             sire == objects[ind + 1].sire
             damGen == IF dam = Absent
                       THEN [objects |-> objects, value |-> -1, raised |-> FALSE]
                       ELSE getGeneration(objects, dam[1], depth + 1)
             sireGen == IF damGen.raised THEN damGen
                        ELSE IF sire = Absent
                        THEN [objects |-> damGen.objects, value |-> -1, raised |-> FALSE]
                        ELSE getGeneration(damGen.objects, sire[1], depth + 1)
             generation == Max(sireGen.value, damGen.value) + 1
         IN  IF sireGen.raised THEN sireGen
             ELSE [objects |-> [sireGen.objects EXCEPT ![ind + 1].generation = Some(generation)],
                   value |-> generation, raised |-> FALSE]

\* The first loop of setUpGenerations (lines 262-264) from item n on.
RECURSIVE setUpGenerations_count(_, _)
setUpGenerations_count(self, n) ==
    IF n > Len(self.individuals) THEN [self |-> self, raised |-> FALSE]
    ELSE LET gen == getGeneration(self.objects, self.individuals[n][2], 0)
         IN  IF gen.raised
             THEN [self |-> [self EXCEPT !.objects = gen.objects], raised |-> TRUE]
             ELSE setUpGenerations_count(
                      [self EXCEPT !.objects = gen.objects,
                                   !.nGenerations = Max(gen.value, @)],
                      n + 1)

\* The items of individuals whose generation is gen, in the dictionary's
\* order, from item n on (the second loop, lines 269-271).
RECURSIVE generation_list(_, _, _)
generation_list(self, gen, n) ==
    IF n > Len(self.individuals) THEN <<>>
    ELSE LET ind == self.individuals[n][2]
         IN  IF self.objects[ind + 1].generation = Some(gen)
             THEN <<ind>> \o generation_list(self, gen, n + 1)
             ELSE generation_list(self, gen, n + 1)

\* Pedigree.setUpGenerations (lines 259-271).
setUpGenerations(self) ==
    LET counted == setUpGenerations_count([self EXCEPT !.nGenerations = 0], 1)
        nGenerations == counted.self.nGenerations + 1
    IN  IF counted.raised THEN counted
        ELSE [self |-> [counted.self EXCEPT
                           !.nGenerations = nGenerations,
                           !.generations =
                               Some([g \in 1 .. nGenerations |->
                                        generation_list(counted.self, g - 1, 1)])],
              raised |-> FALSE]

\* for gen in self.generations: for ind in gen: yield ind (lines 248-250)
RECURSIVE yield_all(_, _)
yield_all(generations, g) ==
    IF g > Len(generations) THEN <<>>
    ELSE generations[g] \o yield_all(generations, g + 1)

\* Pedigree.__iter__ run to its end (lines 245-250): the pedigree after it,
\* and what it yielded.
iterate(self) ==
    LET ready == IF self.generations = Absent
                 THEN setUpGenerations(self)
                 ELSE [self |-> self, raised |-> FALSE]
    IN  [self |-> ready.self, raised |-> ready.raised,
         yielded |-> IF ready.raised THEN <<>> ELSE yield_all(ready.self.generations[1], 1)]

\* The inputs of the pedigree's operations.
RECURSIVE SeqsUpTo(_, _)
SeqsUpTo(S, n) ==
    IF n = 0 THEN {<<>>}
    ELSE LET shorter == SeqsUpTo(S, n - 1)
         IN  shorter \cup {Append(q, x) : q \in {r \in shorter : Len(r) = n - 1}, x \in S}

Rows == Ids \X (Ids \cup {Unknown}) \X (Ids \cup {Unknown})

PedLists(n) == SeqsUpTo(Rows, n)

IdLists == SeqsUpTo(Ids, MaxIdList)

Tokens == Ids \cup {<<"DH">>, Bar}

\* The lines of a plant file: not blank, and with one bar at most.
PlantLines ==
    {parts \in SeqsUpTo(Tokens, MaxTokens) :
        /\ Len(parts) >= 1
        /\ Cardinality({n \in 1 .. Len(parts) : parts[n] = Bar}) <= 1}

\* The model's bound on a pedigree: the objects constructed.
WithinBounds(self) == self.maxIdn <= MaxIdn

\* The pedigree is idle: constructed, and every call on it has returned.
\* pc names the call that returned last where a property looks at its
\* result, and is "Pedigree" after the others.
Idle ==
    /\ entry = "Pedigree"
    /\ pc \in {"Pedigree", "readInPedigreeFromList", "__iter__"}

NotInPedigree ==
    /\ emission = None /\ NoSampler
    /\ callingMethod = None /\ useCalledHaps = None
    /\ indGeno = None /\ indPatHap = None /\ indMatHap = None /\ indProbs = None
    /\ paternalHaplotypes = None /\ maternalHaplotypes = None /\ error = None
    /\ recombination_rate = None /\ previous_estimate = None /\ output = None
    /\ point_estimate = None /\ in_place = None /\ combined = None /\ est = None
    /\ i = None /\ ind_dosages = None /\ ind_info = None

\* pedigree = Pedigree()
InitPedigree ==
    /\ pc = "Pedigree"
    /\ entry = "Pedigree"
    /\ pedigree = Pedigree
    /\ yielded = Absent
    /\ pedList = Absent
    /\ NotInPedigree

\* What the pedigree's operations leave alone.
others == <<entry, callingMethod, useCalledHaps, indGeno, indPatHap, indMatHap, indProbs,
            paternalHaplotypes, maternalHaplotypes, error, recombination_rate,
            point_estimate, in_place, combined, est, i, previous_estimate, output,
            ind_dosages, ind_info, emission, sampler>>

\* pedigree.getIndividual(idx)
GetIndividual ==
    /\ Idle
    /\ \E idx \in Ids :
          /\ WithinBounds(getIndividual(pedigree, idx))
          /\ pedigree' = getIndividual(pedigree, idx)
    /\ pc' = "Pedigree"
    /\ yielded' = Absent /\ pedList' = Absent
    /\ UNCHANGED others

\* pedigree.addAncestors(ind, parts) for an individual of the pedigree
AddAncestors ==
    /\ Idle
    /\ \E n \in 1 .. Len(pedigree.individuals), parts \in IdLists :
          /\ WithinBounds(addAncestors(pedigree, pedigree.individuals[n][2], parts))
          /\ pedigree' = addAncestors(pedigree, pedigree.individuals[n][2], parts)
    /\ pc' = "Pedigree"
    /\ yielded' = Absent /\ pedList' = Absent
    /\ UNCHANGED others

\* pedigree.readInPlantInfo(fileName) for a file of these lines
ReadInPlantInfo ==
    /\ Idle
    /\ \E lines \in SeqsUpTo(PlantLines, MaxLines) :
          /\ WithinBounds(readInPlantInfo(pedigree, lines, 1))
          /\ pedigree' = readInPlantInfo(pedigree, lines, 1)
    /\ pc' = "Pedigree"
    /\ yielded' = Absent /\ pedList' = Absent
    /\ UNCHANGED others

\* pedigree.readInPedigreeFromList(pedList)
ReadInPedigreeFromList ==
    /\ Idle
    /\ \E rows \in PedLists(Max(0, IF MaxRows <= MaxIdn - pedigree.maxIdn
                                   THEN MaxRows ELSE MaxIdn - pedigree.maxIdn)) :
          /\ WithinBounds(readInPedigreeFromList(pedigree, rows))
          /\ pedigree' = readInPedigreeFromList(pedigree, rows)
          /\ pedList' = rows
    /\ pc' = "readInPedigreeFromList"
    /\ yielded' = Absent
    /\ UNCHANGED others

\* pedigree.readInFromPlink(idList, pedList, bed, externalPedigree)
ReadInFromPlink ==
    /\ Idle
    /\ \E externalPedigree \in BOOLEAN, idList \in IdLists, n_loci \in 1 .. MaxLoci :
          \E rows \in IF externalPedigree THEN {<<>>}
                      ELSE PedLists(Max(0, IF MaxPlinkRows <= MaxIdn - pedigree.maxIdn
                                           THEN MaxPlinkRows ELSE MaxIdn - pedigree.maxIdn)) :
              LET read == readInFromPlink(pedigree, idList, rows, n_loci, externalPedigree)
              IN  /\ WithinBounds(read.self)
                  /\ pedigree' = read.self
                  /\ pc' = IF read.raised THEN "ValueError" ELSE "Pedigree"
    /\ yielded' = Absent /\ pedList' = Absent
    /\ UNCHANGED others

\* for ind in pedigree: ...
Iterate ==
    /\ Idle
    /\ LET run == iterate(pedigree)
       IN  /\ pedigree' = run.self
           /\ yielded' = run.yielded
           /\ pc' = IF run.raised THEN "RecursionError" ELSE "__iter__"
    /\ pedList' = Absent
    /\ UNCHANGED others

NextPedigree ==
    \/ GetIndividual
    \/ AddAncestors
    \/ ReadInPlantInfo
    \/ ReadInPedigreeFromList
    \/ ReadInFromPlink
    \/ Iterate

SpecPedigree == InitPedigree /\ [][NextPedigree]_vars

(***************************************************************************)
(* Properties of the pedigree.                                             *)
(***************************************************************************)
\* How many times an iteration yielded the individual ind.
TimesYielded(ind) == Cardinality({k \in 1 .. Len(yielded) : yielded[k] = ind})

\* C22: an iteration over the pedigree, after any adding operations and
\*      iterations in any order, yields every individual that is in
\*      individuals exactly once, and nothing else.
C22_IterationYieldsEveryIndividual ==
    entry = "Pedigree" /\ pc = "__iter__" =>
        /\ Len(yielded) = Len(pedigree.individuals)
        /\ \A n \in 1 .. Len(pedigree.individuals) :
              TimesYielded(pedigree.individuals[n][2]) = 1

\* The identifier idx has a row of its own in the pedigree list.
HasRow(idx) == \E n \in 1 .. Len(pedList) : pedList[n][1] = idx

\* The individual ind was constructed by the second loop of the last call
\* of readInPedigreeFromList, as a parent some row names: the objects of
\* that loop come after the object of the last row.
CreatedAsParent(ind) ==
    /\ Len(pedList) > 0
    /\ ind > Lookup(pedigree, pedList[Len(pedList)][1])

\* C23: after readInPedigreeFromList an individual with a row of its own is
\*      not dummy, and an individual the call constructed as the parent a
\*      row names (a synthesized parent included) is dummy.
C23_DummyIffNoRow ==
    entry = "Pedigree" /\ pc = "readInPedigreeFromList" =>
        \A n \in 1 .. Len(pedigree.individuals) :
            LET idx == pedigree.individuals[n][1]
                ind == pedigree.individuals[n][2]
            IN  /\ HasRow(idx) => ~pedigree.objects[ind + 1].dummy
                /\ CreatedAsParent(ind) => pedigree.objects[ind + 1].dummy

====
